---- MODULE Spec2Model ----
(***************************************************************************)
(* A model of egs/wsj/s5/steps/data/reverberate_data_dir.py: the catalog   *)
(* smoothing, the weighted selection, the cyclic SNR iterator and the run  *)
(* of Main over a data directory (catalog loading, the replica x recording *)
(* loop of GenerateReverberatedWavScp, the rendering of wav.scp).          *)
(*                                                                         *)
(* Probabilities are exact rationals [n, d] (the code uses floats; the     *)
(* model does not round).  A uniform draw is one of finitely many          *)
(* representatives of the real interval it is drawn from: every threshold  *)
(* the code compares the draw with, and a point strictly between any two.  *)
(***************************************************************************)
EXTENDS Integers, Sequences, FiniteSets, TLC

VARIABLES
    h,                      \* the call under study of the pure-function specifications
    pc,                     \* position of Main
    args,                   \* the parsed command line (GetArgs)
    rir_file,               \* lines of --rir-list-file
    noise_file,             \* lines of --noise-list-file, or NoFile
    wav_scp,                \* input wav.scp: recording id -> tokens of the value
    durations,              \* reco2dur: recording id -> seconds
    input_dir,              \* the other files of input_dir: name -> lines, or NoFile
    output_dir,             \* the files AddPrefixToFields writes: name -> lines, or NotWritten
    rir_list,               \* Main's rir_list
    pointsource_noise_list, \* Main's pointsource_noise_list
    iso_noise_list,         \* Main's iso_noise_list
    room_dict,              \* Main's room_dict: room id -> room
    set_order,              \* iteration order of set(room_dict.values()) in this process
    foreground_snrs,        \* list_cyclic_iterator of the foreground SNRs
    background_snrs,        \* list_cyclic_iterator of the background SNRs
    i,                      \* replica index of GenerateReverberatedWavScp
    key_pos,                \* position in the sorted keys of wav_scp
    loc,                    \* locals of the recording being planned
    corrupted_wav_scp,      \* new recording id -> rendered pipe
    out_wav_scp,            \* the written wav.scp, or NotWritten
    warned,                 \* warnings.warn messages
    error,                  \* the exception that ended the run, or "none"
    events,                 \* history: every noise event of the run, in order
    other_run               \* history: room picks of a second process with the same seed

vars == <<h, pc, args, rir_file, noise_file, wav_scp, durations, input_dir, output_dir,
          rir_list,
          pointsource_noise_list, iso_noise_list, room_dict, set_order,
          foreground_snrs, background_snrs, i, key_pos, loc, corrupted_wav_scp,
          out_wav_scp, warned, error, events, other_run>>

mainVars == <<pc, args, rir_file, noise_file, wav_scp, durations, input_dir,
              output_dir, rir_list,
              pointsource_noise_list, iso_noise_list, room_dict, set_order,
              foreground_snrs, background_snrs, i, key_pos, loc, corrupted_wav_scp,
              out_wav_scp, warned, error, events, other_run>>

-----------------------------------------------------------------------------
(* Bounds of the exploration *)

MaxItems == 3       \* longest catalog given to SmoothProbabilityDistribution alone
MaxCalls == 7       \* next() calls made on one list_cyclic_iterator alone
MaxReplicas == 2    \* largest --num-replications of a run

-----------------------------------------------------------------------------
(* Exact rationals *)

RECURSIVE GCD(_, _)
GCD(a, b) == IF b = 0 THEN a ELSE GCD(b, a % b)

Abs(x) == IF x < 0 THEN -x ELSE x

\* n/d in lowest terms with a positive denominator (d # 0)
Rat(n, d) ==
    LET g == GCD(Abs(n), Abs(d))
        s == IF d < 0 THEN -1 ELSE 1
    IN  [n |-> s * (n \div g), d |-> s * (d \div g)]

Zero == [n |-> 0, d |-> 1]
One == [n |-> 1, d |-> 1]
RAdd(x, y) == Rat(x.n * y.d + y.n * x.d, x.d * y.d)
RSub(x, y) == Rat(x.n * y.d - y.n * x.d, x.d * y.d)
RMul(x, y) == Rat(x.n * y.n, x.d * y.d)
RDiv(x, y) == Rat(x.n * y.d, x.d * y.n)
RLess(x, y) == x.n * y.d < y.n * x.d
RGeq(x, y) == x.n * y.d >= y.n * x.d
RMid(x, y) == Rat(x.n * y.d + y.n * x.d, 2 * x.d * y.d)

\* Python's None for an absent --probability
None == [n |-> 0, d |-> 0]

\* sum(item.probability for item in plist), left to right from 0
RECURSIVE SumProbability(_)
SumProbability(plist) ==
    IF Len(plist) = 0 THEN Zero
    ELSE RAdd(SumProbability(SubSeq(plist, 1, Len(plist) - 1)),
              plist[Len(plist)].probability)

\* all orderings of the set S, as sequences
Orderings(S) ==
    {f \in [1..Cardinality(S) -> S] : \A a, b \in 1..Cardinality(S) : a # b => f[a] # f[b]}

-----------------------------------------------------------------------------
(* SmoothProbabilityDistribution *)

SmoothingWeight == [n |-> 3, d |-> 10]

uniform_probability(list) == Rat(1, Len(list))

\* lines 365-370: the first loop
Blended(list, smoothing_weight) ==
    [k \in 1..Len(list) |->
        IF list[k].probability = None
        THEN [list[k] EXCEPT !.probability = uniform_probability(list)]
        ELSE [list[k] EXCEPT !.probability =
                 RAdd(RMul(RSub(One, smoothing_weight), list[k].probability),
                      RMul(smoothing_weight, uniform_probability(list)))]]

SmoothRaisesOnZeroSum(list, smoothing_weight) ==
    Len(list) > 0 /\ SumProbability(Blended(list, smoothing_weight)).n = 0

\* 1 / float(len(list)) and item.probability / sum_p raise ZeroDivisionError
SmoothRaises(list, smoothing_weight) ==
    \/ Len(list) = 0
    \/ SumProbability(Blended(list, smoothing_weight)).n = 0

SmoothNoNormalize(list, smoothing_weight) == Blended(list, smoothing_weight)

SmoothProbabilityDistribution(list, smoothing_weight) ==
    LET blended == Blended(list, smoothing_weight)
        sum_p == SumProbability(blended)
    IN  [k \in 1..Len(list) |->
            [blended[k] EXCEPT !.probability = RDiv(blended[k].probability, sum_p)]]

-----------------------------------------------------------------------------
(* PickItemWithProbability *)

\* accumulate_p when the loop reaches item k
AccumulateBefore(plist, k) == SumProbability(SubSeq(plist, 1, k - 1))

\* the values random.uniform(0, total_p) is represented by
UniformDraws(plist) ==
    LET total_p == SumProbability(plist)
        lo == IF RLess(total_p, Zero) THEN total_p ELSE Zero
        hi == IF RLess(total_p, Zero) THEN Zero ELSE total_p
        marks == {m \in {SumProbability(SubSeq(plist, 1, k)) : k \in 0..Len(plist)} :
                     RGeq(m, lo) /\ RGeq(hi, m)} \cup {lo, hi}
    IN  marks \cup {RMid(a, b) : a \in marks, b \in marks}

PickIndexStrict(plist, p) ==
    LET hits == {k \in 1..Len(plist) :
                    RLess(p, RAdd(AccumulateBefore(plist, k), plist[k].probability))}
    IN  IF hits = {} THEN 0 ELSE CHOOSE k \in hits : \A j \in hits : k <= j

\* lines 105-110: the index of the item returned, 0 when the loop ends and the
\* assert False is reached
PickIndex(plist, p) ==
    LET hits == {k \in 1..Len(plist) :
                    RGeq(RAdd(AccumulateBefore(plist, k), plist[k].probability), p)}
    IN  IF hits = {} THEN 0 ELSE CHOOSE k \in hits : \A j \in hits : k <= j

\* lines 99-102: the list accumulated over; a dictionary is iterated as
\* list(set(x.values())), in the order `order` of its keys
PlistOfDict(x, order) == [k \in 1..Len(order) |-> x[order[k]]]

-----------------------------------------------------------------------------
(* list_cyclic_iterator *)

\* __init__: list_index 0 and the list as random.shuffle left it
list_cyclic_iterator(shuffled) == [list |-> shuffled, list_index |-> 0]

\* the outcomes of random.shuffle(list)
Shuffles(list) ==
    {[k \in 1..Len(list) |-> list[f[k]]] : f \in Orderings(1..Len(list))}

CyclicItem(it) == it.list[it.list_index + 1]

CyclicAdvanceStuck(it) == it

CyclicAdvance(it) ==
    [it EXCEPT !.list_index = (it.list_index + 1) % Len(it.list)]

-----------------------------------------------------------------------------
(* Main is idle while one function is studied alone *)

\* --noise-list-file: the lines of the file, or no file given (None)
NoFile == [given |-> FALSE, lines |-> <<>>]
File(lines) == [given |-> TRUE, lines |-> lines]
NotWritten == <<"NotWritten">>
NoLoc == [step |-> "idle"]
NoOtherRun == [set_order |-> <<>>, room_id |-> "", compared |-> FALSE]

MainIdle ==
    /\ pc = "idle"
    /\ args = <<>> /\ rir_file = <<>> /\ noise_file = NoFile
    /\ wav_scp = <<>> /\ durations = <<>> /\ input_dir = <<>> /\ output_dir = <<>>
    /\ rir_list = <<>> /\ pointsource_noise_list = <<>> /\ iso_noise_list = <<>>
    /\ room_dict = <<>> /\ set_order = <<>>
    /\ foreground_snrs = <<>> /\ background_snrs = <<>>
    /\ i = 0 /\ key_pos = 0 /\ loc = NoLoc
    /\ corrupted_wav_scp = <<>> /\ out_wav_scp = NotWritten
    /\ warned = <<>> /\ error = "none" /\ events = <<>> /\ other_run = NoOtherRun

-----------------------------------------------------------------------------
(* SmoothProbabilityDistribution alone, on every catalog of up to MaxItems   *)
(* items whose --probability is absent or one of RawProbabilities            *)

RawProbabilities == {Rat(-1, 1), Rat(0, 1), Rat(1, 2), Rat(1, 1)}

RawCatalogs ==
    UNION {[1..len -> {[id |-> 0, probability |-> r] : r \in RawProbabilities \cup {None}}] :
              len \in 0..MaxItems}

\* the catalog as parsed: item k is the k-th line
Numbered(list) == [k \in 1..Len(list) |-> [list[k] EXCEPT !.id = k]]

InitSmooth ==
    /\ h \in {[fn |-> "smooth", st |-> "call", in |-> Numbered(c), out |-> <<>>] :
                 c \in RawCatalogs}
    /\ MainIdle

SmoothCall ==
    /\ h.fn = "smooth" /\ h.st = "call"
    /\ h' = IF SmoothRaises(h.in, SmoothingWeight)
            THEN [h EXCEPT !.st = "ZeroDivisionError"]
            ELSE [h EXCEPT !.st = "ret",
                           !.out = SmoothProbabilityDistribution(h.in, SmoothingWeight)]
    /\ UNCHANGED mainVars

SpecSmooth == InitSmooth /\ [][SmoothCall]_vars

-----------------------------------------------------------------------------
(* PickItemWithProbability alone, on the lists Main can pass to it: a        *)
(* smoothed catalog, or the items of one that a room or a RIR id selects     *)

Masked(list, mask) == SelectSeq(list, LAMBDA item : item.id \in mask)

PickLists ==
    {Masked(SmoothProbabilityDistribution(Numbered(c), SmoothingWeight), mask) :
        c \in {c \in RawCatalogs : ~SmoothRaises(c, SmoothingWeight)},
        mask \in SUBSET (1..MaxItems)}

InitPick ==
    /\ \E plist \in PickLists : \E p \in UniformDraws(plist) :
          h = [fn |-> "pick", st |-> "call", plist |-> plist, p |-> p, out |-> 0]
    /\ MainIdle

PickCall ==
    /\ h.fn = "pick" /\ h.st = "call"
    /\ h' = IF PickIndex(h.plist, h.p) = 0
            THEN [h EXCEPT !.st = "AssertionError"]
            ELSE [h EXCEPT !.st = "ret", !.out = PickIndex(h.plist, h.p)]
    /\ UNCHANGED mainVars

SpecPick == InitPick /\ [][PickCall]_vars

-----------------------------------------------------------------------------
(* list_cyclic_iterator alone, over every sequence of distinct SNR values    *)

SnrValues == {0, 10, 20}

SnrArrays == UNION {Orderings(S) : S \in SUBSET SnrValues \ {{}}}

InitCyclic ==
    /\ \E array \in SnrArrays : \E shuffled \in Shuffles(array) :
          h = [fn |-> "cyclic", array |-> array,
               it |-> list_cyclic_iterator(shuffled), log |-> <<>>]
    /\ MainIdle

CyclicNext ==
    /\ h.fn = "cyclic" /\ Len(h.log) < MaxCalls
    /\ h' = [h EXCEPT !.log = Append(@, CyclicItem(h.it)),
                      !.it = CyclicAdvance(h.it)]
    /\ UNCHANGED mainVars

SpecCyclic == InitCyclic /\ [][CyclicNext]_vars

-----------------------------------------------------------------------------
(* Strings the run formats *)

RECURSIVE JoinWith(_, _)
\* sep.join(strs)
JoinWith(strs, sep) ==
    IF Len(strs) = 0 THEN ""
    ELSE IF Len(strs) = 1 THEN strs[1]
    ELSE JoinWith(SubSeq(strs, 1, Len(strs) - 1), sep) \o sep \o strs[Len(strs)]

\* str() of a float with an integral value, e.g. 30.0
FloatStr(x) == ToString(x) \o ".0"

\* str() of a float given in hundredths, e.g. 1500 -> 15.0, 525 -> 5.25
HundredthsStr(x) ==
    ToString(x \div 100) \o "." \o
        (IF x % 10 = 0 THEN ToString((x % 100) \div 10)
         ELSE IF x % 100 < 10 THEN "0" \o ToString(x % 100)
         ELSE ToString(x % 100))

\* an entry of start_times: the int 0, or the float round(..., 2) in hundredths
StartTimeStr(t) == IF t.float THEN HundredthsStr(t.v) ELSE ToString(t.v)


-----------------------------------------------------------------------------
(* GetNewId, CheckArgs *)

NoPrefix == <<>>

GetNewIdNoCopy(id, prefix, copy) ==
    IF prefix # NoPrefix THEN prefix[1] \o "_" \o id ELSE id

GetNewId(id, prefix, copy) ==
    IF prefix # NoPrefix THEN prefix[1] \o ToString(copy) \o "_" \o id ELSE id

\* lines 76-78
CheckArgsPrefix(a) ==
    IF a.num_replicas > 1 /\ a.prefix = NoPrefix THEN <<"rvb">> ELSE a.prefix

\* lines 308-314: one line of the output for replica `copy`; field holds
\* the positions renamed, counted from 1
PrefixedLine(line, prefix, copy, field) ==
    IF Len(line.tokens) > 0 /\ ~line.comment
    THEN JoinWith([j \in 1..Len(line.tokens) |->
                      IF j \in field THEN GetNewId(line.tokens[j], prefix, copy)
                      ELSE line.tokens[j]], " ")
    ELSE line.raw

RECURSIVE AddPrefixToFieldsFrom(_, _, _, _, _)
\* lines 306-314, from replica i on
AddPrefixToFieldsFrom(list, i_, num_replicas, prefix, field) ==
    IF i_ >= num_replicas THEN <<>>
    ELSE [k \in 1..Len(list) |-> PrefixedLine(list[k], prefix, i_, field)]
            \o AddPrefixToFieldsFrom(list, i_ + 1, num_replicas, prefix, field)

\* only the lines of replica 0
AddPrefixToFieldsOneCopy(list, num_replicas, prefix, field) ==
    AddPrefixToFieldsFrom(list, 0, 1, prefix, field)

\* lines 303-315: the lines written to output_file
AddPrefixToFields(list, num_replicas, prefix, field) ==
    AddPrefixToFieldsFrom(list, 0, num_replicas, prefix, field)

\* split1[j] with j beyond the tokens of a line raises IndexError
AddPrefixRaises(list, num_replicas, field) ==
    /\ num_replicas > 0
    /\ \E k \in 1..Len(list) :
          /\ Len(list[k].tokens) > 0 /\ ~list[k].comment
          /\ \E j \in field : j > Len(list[k].tokens)

-----------------------------------------------------------------------------
(* ParseRirList, ParseNoiseList, MakeRoomDict, FilterIsotropicNoiseList *)

\* an isotropic line without --rir-id (line 445)
NoRirId == ""

NoiseListRaises(lines) ==
    \E k \in 1..Len(lines) :
        lines[k].noise_type = "isotropic" /\ lines[k].rir_id = NoRirId

PointSourceLines(lines) == SelectSeq(lines, LAMBDA n : n.noise_type # "isotropic")
IsotropicLines(lines) == SelectSeq(lines, LAMBDA n : n.noise_type = "isotropic")

RoomIds(list) == {list[k].room_id : k \in 1..Len(list)}

\* lines 414-417 without the loop of lines 420-421: every weight stays 0
MakeRoomDictUnweighted(list) ==
    [r \in RoomIds(list) |->
        [room_id |-> r, rir_list |-> SelectSeq(list, LAMBDA rir : rir.room_id = r),
         probability |-> Zero]]

MakeRoomDict(list) ==
    [r \in RoomIds(list) |->
        LET members == SelectSeq(list, LAMBDA rir : rir.room_id = r)
        IN  [room_id |-> r, rir_list |-> members, probability |-> SumProbability(members)]]

FilterIsotropicNoiseListAll(list, rir_id) == list

FilterIsotropicNoiseList(list, rir_id) ==
    SelectSeq(list, LAMBDA noise : noise.rir_id = rir_id)

-----------------------------------------------------------------------------
(* Rendering: the strings of GenerateReverberationOpts, AddPointSourceNoise *)
(* and GenerateReverberatedWavScp                                           *)

\* the value of wav.scp as ParseFileToDict joins it
SignalReference(tokens) == JoinWith(tokens, " ")

\* lines 272-275
WavOriginalPipe(tokens) ==
    IF Len(tokens) = 1 THEN "cat " \o SignalReference(tokens) \o " |"
    ELSE SignalReference(tokens)

\* line 277
MaxNoisesRecording(max_noises_per_minute, speech_dur) ==
    (max_noises_per_minute * speech_dur) \div 60

ImpulseResponseOpt(rir) == "--impulse-response=" \o rir.rir_file_location \o " "

IsotropicNoiseIo(noise, speech_dur) ==
    "wav-reverberate --duration=" \o FloatStr(speech_dur) \o " " \o
        noise.noise_file_location \o " - |"

BackgroundNoiseIo(noise, noise_rir, speech_dur) ==
    "wav-reverberate --duration=" \o FloatStr(speech_dur) \o " --impulse-response=" \o
        noise_rir.rir_file_location \o " " \o noise.noise_file_location \o " - |"

ForegroundNoiseIo(noise, noise_rir) ==
    "wav-reverberate --impulse-response=" \o noise_rir.rir_file_location \o " " \o
        noise.noise_file_location \o " - |"

\* lines 228-231
AdditiveOpts(d) ==
    IF Len(d.noise_io) > 0
    THEN "--additive-signals='" \o JoinWith(d.noise_io, ",") \o "' " \o
         "--start-times='" \o JoinWith([k \in 1..Len(d.start_times) |-> StartTimeStr(d.start_times[k])], ",") \o "' " \o
         "--snrs='" \o JoinWith([k \in 1..Len(d.snrs) |-> FloatStr(d.snrs[k])], ",") \o "' "
    ELSE ""

\* lines 291-294
WavCorruptedPipe(wav_original_pipe, reverberate_opts) ==
    IF reverberate_opts = "" THEN wav_original_pipe
    ELSE wav_original_pipe \o " wav-reverberate " \o reverberate_opts \o " - - |"

\* random.random() < probability
DrawBelowOrEqual(u, probability) == RGeq(probability, u)

DrawBelow(u, probability) == RLess(u, probability)

\* the values random.random() is represented by
RandomDraws == {Rat(0, 1), Rat(1, 4), Rat(1, 2), Rat(3, 4)}

\* round(random.random() * speech_dur, 2), in hundredths of a second
StartTimeDraws(speech_dur) == {0, 50 * speech_dur, 100 * speech_dur}

-----------------------------------------------------------------------------
(* The inputs of a run of Main *)

RirLine(k, room, raw) ==
    [rir_id |-> "r" \o ToString(k), room_id |-> room, probability |-> raw,
     rir_file_location |-> "r" \o ToString(k) \o ".wav"]

PointSourceLine(bg_fg) ==
    [noise_id |-> "", noise_type |-> "point-source", bg_fg_type |-> bg_fg,
     rir_id |-> NoRirId, probability |-> None, noise_file_location |-> ""]

\* --bg-fg-type keeps its default on an isotropic line
IsotropicLine(rir_id) ==
    [noise_id |-> "", noise_type |-> "isotropic", bg_fg_type |-> "background",
     rir_id |-> rir_id, probability |-> None, noise_file_location |-> ""]

\* line k of the noise file gets the id n<k> and the location n<k>.wav
NumberedNoise(lines) ==
    [k \in 1..Len(lines) |->
        [lines[k] EXCEPT !.noise_id = "n" \o ToString(k),
                         !.noise_file_location = "n" \o ToString(k) \o ".wav"]]

SeqsUpTo(S, n) == UNION {[1..len -> S] : len \in 0..n}

\* every RIR file of up to two lines over two rooms
RirFiles ==
    {[k \in 1..Len(f) |-> RirLine(k, f[k][1], f[k][2])] :
        f \in SeqsUpTo({"A", "B"} \X {None, One}, 2)}

\* every noise file of up to three lines, the point-source lines first
NoiseFiles ==
    {File(NumberedNoise(f[1] \o f[2])) :
        f \in {g \in SeqsUpTo({PointSourceLine("background"),
                               PointSourceLine("foreground")}, 2)
                     \X SeqsUpTo({IsotropicLine("r1"), IsotropicLine("r2"),
                                  IsotropicLine(NoRirId)}, 2) :
                  Len(g[1]) + Len(g[2]) <= 3}}

Probabilities == {Zero, Rat(1, 2), One}

\* recording ids in the order keys.sort() gives them
IdOrder == <<"0_a", "a", "b">>

\* the value of each recording in wav.scp: a bare file, or a pipe
WavTokens ==
    [id \in {"0_a", "a", "b"} |->
        IF id = "b" THEN <<"sph2pipe", "b.sph", "|">> ELSE <<id \o ".wav">>]

\* the files CreateReverberatedCopy replicates with AddPrefixToFields
FileNames == {"utt2spk", "text", "segments", "reco2file_and_channel"}

\* a line of such a file: the stripped line and what line.split() gives;
\* comment tells line[0] == ';'
Line(tokens) == [raw |-> JoinWith(tokens, " "), tokens |-> tokens, comment |-> FALSE]
CommentLine(raw) == [raw |-> raw, tokens |-> <<raw>>, comment |-> TRUE]

\* two utterances u1 and u2 of recording "a"; segments starts with a comment
FileLines ==
    [name \in FileNames |->
        CASE name = "utt2spk" -> <<Line(<<"u1", "s1">>), Line(<<"u2", "s1">>)>>
          [] name = "text" -> <<Line(<<"u1", "hello", "world">>), Line(<<>>),
                                Line(<<"u2", "hi">>)>>
          [] name = "segments" -> <<CommentLine(";;utt"), Line(<<"u1", "a", "0", "5">>),
                                    Line(<<"u2", "a", "5", "9">>)>>
          [] name = "reco2file_and_channel" -> <<Line(<<"a", "a", "A">>)>>]

\* input_dir with the files of `present`
InputDir(present) ==
    [name \in FileNames |-> IF name \in present THEN File(FileLines[name]) ELSE NoFile]

Corpus(ids, dur) ==
    [wav_scp |-> [id \in ids |-> WavTokens[id]], durations |-> [id \in ids |-> dur],
     input_dir |-> InputDir(FileNames)]

Arguments(replicas, prefix, rvb, iso, ps, fg, bg) ==
    [num_replicas |-> replicas, prefix |-> prefix,
     speech_rvb_probability |-> rvb,
     isotropic_noise_addition_probability |-> iso,
     pointsource_noise_addition_probability |-> ps,
     max_noises_per_minute |-> 2,
     foreground_snr_array |-> fg, background_snr_array |-> bg]

Configuration(a, rirs, noises, corpus) ==
    [args |-> a, rir_file |-> rirs, noise_file |-> noises, corpus |-> corpus]

\* every catalog, on one recording with every probability 0
LoadingConfigurations ==
    {Configuration(Arguments(1, NoPrefix, Zero, Zero, Zero, <<20>>, <<20>>),
                   rirs, noises, Corpus({"a"}, 30)) :
        rirs \in RirFiles, noises \in NoiseFiles \cup {NoFile}}

\* every corpus, replica count and prefix, on one-item catalogs with every
\* probability 0, or every probability 1 as by default
CorpusConfigurations ==
    {Configuration(Arguments(replicas, prefix, q, q, q, <<20, 10>>, <<20, 10, 0>>),
                   <<RirLine(1, "A", None)>>,
                   File(NumberedNoise(<<PointSourceLine("background"),
                                        IsotropicLine("r1")>>)),
                   Corpus(ids, 30)) :
        replicas \in 1..MaxReplicas, prefix \in {NoPrefix, <<"p">>},
        q \in {Zero, One}, ids \in SUBSET {"0_a", "a", "b"}}

\* every combination of the three probabilities, on one recording too short
\* for a point-source noise (10 s), or long enough for one (30 s)
PlanningConfigurations ==
    {Configuration(Arguments(1, NoPrefix, rvb, iso, ps, <<20, 10>>, <<20, 10>>),
                   <<RirLine(1, "A", None), RirLine(2, room2, None)>>,
                   File(NumberedNoise(<<PointSourceLine("background"),
                                        PointSourceLine("foreground"),
                                        IsotropicLine("r1")>>)),
                   Corpus({"a"}, dur)) :
        rvb \in Probabilities, iso \in Probabilities, ps \in Probabilities,
        room2 \in {"A", "B"}, dur \in {10, 30}}

\* the three probabilities at 1/2, on one recording long enough for two
\* point-source noises (60 s)
LongConfigurations ==
    {Configuration(Arguments(1, NoPrefix, Rat(1, 2), Rat(1, 2), Rat(1, 2), <<20>>, <<20, 10>>),
                   <<RirLine(1, "A", None), RirLine(2, "B", None)>>,
                   File(NumberedNoise(<<PointSourceLine("background"),
                                        PointSourceLine("foreground"),
                                        IsotropicLine("r1")>>)),
                   Corpus({"a"}, 60))}

\* the default probabilities (all 1) and every replica count, on one recording
\* with noises of the three kinds
ReplicaConfigurations ==
    {Configuration(Arguments(replicas, NoPrefix, One, One, One, <<20, 10>>, <<20, 10>>),
                   <<RirLine(1, "A", None)>>,
                   File(NumberedNoise(<<PointSourceLine("background"),
                                        PointSourceLine("foreground"),
                                        IsotropicLine("r1")>>)),
                   Corpus({"a"}, dur)) :
        replicas \in 1..MaxReplicas, dur \in {30, 60}}

\* every RIR file of three lines over two rooms, on one recording with every
\* probability 0
RoomConfigurations ==
    {Configuration(Arguments(1, NoPrefix, Zero, Zero, Zero, <<20>>, <<20>>),
                   [k \in 1..3 |-> RirLine(k, f[k][1], f[k][2])],
                   File(NumberedNoise(<<PointSourceLine("background"),
                                        IsotropicLine("r1")>>)),
                   Corpus({"a"}, 30)) :
        f \in [1..3 -> {"A", "B"} \X {None, One}]}

\* every set of files present in input_dir, every replica count and prefix,
\* on one recording with every probability 0
CompanionConfigurations ==
    {Configuration(Arguments(replicas, prefix, Zero, Zero, Zero, <<20>>, <<20>>),
                   <<RirLine(1, "A", None)>>,
                   File(NumberedNoise(<<PointSourceLine("background"),
                                        IsotropicLine("r1")>>)),
                   [Corpus({"a"}, 30) EXCEPT !.input_dir = InputDir(present)]) :
        replicas \in 1..MaxReplicas, prefix \in {NoPrefix, <<"p">>},
        present \in SUBSET FileNames}

Configurations ==
    LoadingConfigurations \cup CorpusConfigurations \cup PlanningConfigurations
        \cup LongConfigurations \cup ReplicaConfigurations \cup RoomConfigurations
        \cup CompanionConfigurations

Init ==
    /\ h = [fn |-> "main"]
    /\ pc = "CheckArgs"
    /\ \E c \in Configurations :
          /\ args = c.args
          /\ rir_file = c.rir_file
          /\ noise_file = c.noise_file
          /\ wav_scp = c.corpus.wav_scp
          /\ durations = c.corpus.durations
          /\ input_dir = c.corpus.input_dir
    /\ output_dir = [name \in FileNames |-> NotWritten]
    /\ rir_list = <<>> /\ pointsource_noise_list = <<>> /\ iso_noise_list = <<>>
    /\ room_dict = <<>> /\ set_order = <<>>
    /\ foreground_snrs = <<>> /\ background_snrs = <<>>
    /\ i = 0 /\ key_pos = 0 /\ loc = NoLoc
    /\ corrupted_wav_scp = <<>> /\ out_wav_scp = NotWritten
    /\ warned = <<>> /\ error = "none" /\ events = <<>> /\ other_run = NoOtherRun

-----------------------------------------------------------------------------
(* Main: CheckArgs and the loading of the catalogs *)

inputVars == <<rir_file, noise_file, wav_scp, durations, input_dir>>
catalogVars == <<rir_list, pointsource_noise_list, iso_noise_list, room_dict, set_order>>
iteratorVars == <<foreground_snrs, background_snrs>>
loopVars == <<i, key_pos, loc, corrupted_wav_scp, events>>

\* an exception nobody catches ends the run
Raise(exception) ==
    /\ pc' = "aborted"
    /\ error' = exception

CheckArgs ==
    /\ pc = "CheckArgs"
    /\ args' = [args EXCEPT !.prefix = CheckArgsPrefix(args)]
    /\ warned' = IF args.num_replicas > 1 /\ args.prefix = NoPrefix
                 THEN Append(warned, "--prefix is set to 'rvb'")
                 ELSE warned
    /\ pc' = "ParseRirList"
    /\ UNCHANGED <<h, inputVars, catalogVars, iteratorVars, loopVars, out_wav_scp, output_dir,
                   error, other_run>>

ParseRirList ==
    /\ pc = "ParseRirList"
    /\ IF SmoothRaises(rir_file, SmoothingWeight)
       THEN Raise("ZeroDivisionError") /\ UNCHANGED rir_list
       ELSE /\ rir_list' = SmoothProbabilityDistribution(rir_file, SmoothingWeight)
            /\ pc' = "ParseNoiseList"
            /\ UNCHANGED error
    /\ UNCHANGED <<h, args, inputVars, pointsource_noise_list, iso_noise_list, room_dict,
                   set_order, iteratorVars, loopVars, out_wav_scp, output_dir, warned, other_run>>

\* lines 461-464: without --noise-list-file the two lists are never bound
ParseNoiseList ==
    /\ pc = "ParseNoiseList"
    /\ IF noise_file = NoFile
       THEN /\ pc' = "MakeRoomDict"
            /\ UNCHANGED <<pointsource_noise_list, iso_noise_list, error>>
       ELSE IF NoiseListRaises(noise_file.lines)
       THEN Raise("Exception") /\ UNCHANGED <<pointsource_noise_list, iso_noise_list>>
       ELSE IF \/ SmoothRaises(PointSourceLines(noise_file.lines), SmoothingWeight)
               \/ SmoothRaises(IsotropicLines(noise_file.lines), SmoothingWeight)
       THEN Raise("ZeroDivisionError")
            /\ UNCHANGED <<pointsource_noise_list, iso_noise_list>>
       ELSE /\ pointsource_noise_list' =
                   SmoothProbabilityDistribution(PointSourceLines(noise_file.lines),
                                                 SmoothingWeight)
            /\ iso_noise_list' =
                   SmoothProbabilityDistribution(IsotropicLines(noise_file.lines),
                                                 SmoothingWeight)
            /\ pc' = "MakeRoomDict"
            /\ UNCHANGED error
    /\ UNCHANGED <<h, args, inputVars, rir_list, room_dict, set_order, iteratorVars,
                   loopVars, out_wav_scp, output_dir, warned, other_run>>

\* line 465.  The rooms are function objects, hashed by address: the order in
\* which set(room_dict.values()) iterates is fixed in a process and may be any
\* order of the rooms; a second process has an order of its own.
MakeRoomDictStep ==
    /\ pc = "MakeRoomDict"
    /\ room_dict' = MakeRoomDict(rir_list)
    /\ \E order \in Orderings(RoomIds(rir_list)) : set_order' = order
    /\ \E order \in Orderings(RoomIds(rir_list)) :
          other_run' = [set_order |-> order, room_id |-> "", compared |-> FALSE]
    /\ pc' = "CreateReverberatedCopy"
    /\ UNCHANGED <<h, args, inputVars, rir_list, pointsource_noise_list, iso_noise_list,
                   iteratorVars, loopVars, out_wav_scp, output_dir, warned, error>>

\* lines 467-479, 334-345 and 265-267: the call of CreateReverberatedCopy reads
\* the two noise lists; GenerateReverberatedWavScp builds the two iterators
CreateReverberatedCopy ==
    /\ pc = "CreateReverberatedCopy"
    /\ IF noise_file = NoFile
       THEN Raise("NameError") /\ UNCHANGED iteratorVars
       ELSE /\ \E shuffled \in Shuffles(args.foreground_snr_array) :
                  foreground_snrs' = list_cyclic_iterator(shuffled)
            /\ \E shuffled \in Shuffles(args.background_snr_array) :
                  background_snrs' = list_cyclic_iterator(shuffled)
            /\ pc' = "loop"
            /\ UNCHANGED error
    /\ UNCHANGED <<h, args, inputVars, catalogVars, loopVars, out_wav_scp, output_dir, warned,
                   other_run>>

-----------------------------------------------------------------------------
(* GenerateReverberatedWavScp: the replica x recording loop *)

\* keys = wav_scp.keys(); keys.sort()
SortedKeys(scp) == SelectSeq(IdOrder, LAMBDA id : id \in DOMAIN scp)

LoopDone == Len(SortedKeys(wav_scp)) = 0 \/ i >= args.num_replicas

EmptyDescriptor == [noise_io |-> <<>>, start_times |-> <<>>, snrs |-> <<>>]

\* the three lists grown at the front
AppendNoiseInFront(d, noise_io, start_time, snr) ==
    [noise_io |-> <<noise_io>> \o d.noise_io,
     start_times |-> <<start_time>> \o d.start_times,
     snrs |-> <<snr>> \o d.snrs]

AppendNoise(d, noise_io, start_time, snr) ==
    [noise_io |-> Append(d.noise_io, noise_io),
     start_times |-> Append(d.start_times, start_time),
     snrs |-> Append(d.snrs, snr)]

Failed == [error |-> "AssertionError"]

\* The calls of the random module made for one recording, in call order:
\* lines 200, 202 and 203 are always reached
SpeechDraws == <<"room", "speech_rir", "speech_rvb">>

\* random.random() called although the filtered list is empty
IsotropicDrawsAlways(rir_iso_noise_list, add) ==
    IF add /\ Len(rir_iso_noise_list) > 0 THEN <<"isotropic_add", "isotropic_noise">>
    ELSE <<"isotropic_add">>

\* lines 209-210: `and` evaluates random.random() only after len(...) > 0
IsotropicDraws(rir_iso_noise_list, add) ==
    IF Len(rir_iso_noise_list) = 0 THEN <<>>
    ELSE IF add THEN <<"isotropic_add", "isotropic_noise">>
    ELSE <<"isotropic_add">>

\* lines 164-165
PointSourceDraws(list, add) ==
    IF Len(list) = 0 THEN <<>>
    ELSE IF add THEN <<"pointsource_add", "count">>
    ELSE <<"pointsource_add">>

\* lines 167-177: one iteration of the loop
IterationDraws(noise) ==
    IF noise.bg_fg_type = "background" THEN <<"noise", "noise_rir">>
    ELSE <<"noise", "noise_rir", "start_time">>

\* the outcomes of PickItemWithProbability(plist) over the draws of
\* random.uniform: the index of the item returned, 0 for the failed assertion
Picks(plist) == {PickIndex(plist, p) : p \in UniformDraws(plist)}

\* the outcomes of random.random() < probability
Draws(probability) == {DrawBelow(u, probability) : u \in RandomDraws}

\* the outcomes of PickItemWithProbability(room_dict): the room picked and the
\* room another process, iterating the set in its own order, picks on the
\* same draw
RoomPicks ==
    LET plist == PlistOfDict(room_dict, set_order)
        other == PlistOfDict(room_dict, other_run.set_order)
    IN  {[k |-> PickIndex(plist, p),
          other_room_id |-> IF PickIndex(other, p) = 0 THEN ""
                            ELSE other[PickIndex(other, p)].room_id] :
            p \in UniformDraws(plist)}

\* lines 207-214, given the room, the speech RIR and the outcome of line 203
IsotropicOutcomes(room, speech_rir, rvb, other_room_id, speech_dur) ==
    LET rir_iso_noise_list == FilterIsotropicNoiseList(iso_noise_list, speech_rir.rir_id)
        base == [error |-> "none", room |-> room, speech_rir |-> speech_rir,
                 other_room_id |-> other_room_id,
                 reverberate_opts |-> IF rvb THEN ImpulseResponseOpt(speech_rir) ELSE "",
                 noise_addition_descriptor |-> EmptyDescriptor,
                 plan |-> <<>>, background_snrs |-> background_snrs,
                 draws |-> SpeechDraws \o IsotropicDraws(rir_iso_noise_list, FALSE)]
        added(noise) ==
            [base EXCEPT
                !.draws = SpeechDraws \o IsotropicDraws(rir_iso_noise_list, TRUE),
                !.noise_addition_descriptor =
                    AppendNoise(EmptyDescriptor, IsotropicNoiseIo(noise, speech_dur),
                                [v |-> 0, float |-> FALSE], CyclicItem(background_snrs)),
                !.plan = <<[kind |-> "isotropic", noise_id |-> noise.noise_id,
                            linked_rir_id |-> noise.rir_id, noise_rir_id |-> "",
                            start_time |-> 0, snr |-> CyclicItem(background_snrs)]>>,
                !.background_snrs = CyclicAdvance(background_snrs)]
    IN  IF Len(rir_iso_noise_list) = 0 THEN {base}
        ELSE UNION {IF add
                    THEN {IF k = 0 THEN Failed ELSE added(rir_iso_noise_list[k]) :
                             k \in Picks(rir_iso_noise_list)}
                    ELSE {base} :
                       add \in Draws(args.isotropic_noise_addition_probability)}

\* lines 194-214: the room, the speech RIR, the reverberation of the speech
\* and the isotropic noise
SpeechOutcomes(speech_dur) ==
    LET plist == PlistOfDict(room_dict, set_order)
        inRoom(room, other_room_id) ==
            UNION {IF k = 0 THEN {Failed}
                   ELSE UNION {IsotropicOutcomes(room, room.rir_list[k], rvb,
                                                 other_room_id, speech_dur) :
                                  rvb \in Draws(args.speech_rvb_probability)} :
                      k \in Picks(room.rir_list)}
    IN  UNION {IF pick.k = 0 THEN {Failed}
               ELSE inRoom(plist[pick.k], pick.other_room_id) :
                  pick \in RoomPicks}

\* lines 271-277 and the call of GenerateReverberationOpts up to line 214
GenerateReverberationOpts ==
    /\ pc = "loop" /\ ~LoopDone
    /\ LET recording_id == SortedKeys(wav_scp)[key_pos + 1]
           speech_dur == durations[recording_id]
       IN  \E o \in SpeechOutcomes(speech_dur) :
              IF o.error # "none"
              THEN Raise(o.error) /\ UNCHANGED <<loc, background_snrs, events, other_run>>
              ELSE /\ loc' = [recording_id |-> recording_id,
                              wav_original_pipe |-> WavOriginalPipe(wav_scp[recording_id]),
                              speech_dur |-> speech_dur,
                              max_noises_recording |->
                                  MaxNoisesRecording(args.max_noises_per_minute, speech_dur),
                              room |-> o.room,
                              speech_rir |-> o.speech_rir,
                              reverberate_opts |-> o.reverberate_opts,
                              noise_addition_descriptor |-> o.noise_addition_descriptor,
                              plan |-> o.plan,
                              draws |-> o.draws,
                              remaining |-> 0]
                   /\ background_snrs' = o.background_snrs
                   /\ events' = events \o [k \in 1..Len(o.plan) |->
                                              [kind |-> o.plan[k].kind, snr |-> o.plan[k].snr]]
                   /\ other_run' = [other_run EXCEPT !.room_id = o.other_room_id,
                                                     !.compared = TRUE]
                   /\ pc' = "AddPointSourceNoise"
                   /\ UNCHANGED error
    /\ UNCHANGED <<h, args, inputVars, catalogVars, foreground_snrs, i, key_pos,
                   corrupted_wav_scp, out_wav_scp, output_dir, warned>>

\* lines 164-165: the probability draw and random.randint(1, max_noises_recording)
AddPointSourceNoise ==
    /\ pc = "AddPointSourceNoise"
    /\ \E add \in Draws(args.pointsource_noise_addition_probability) :
          IF Len(pointsource_noise_list) > 0 /\ add
          THEN IF loc.max_noises_recording < 1
               THEN Raise("ValueError") /\ UNCHANGED loc
               ELSE /\ \E count \in 1..loc.max_noises_recording :
                          loc' = [loc EXCEPT
                                    !.remaining = count,
                                    !.draws = @ \o PointSourceDraws(pointsource_noise_list, TRUE)]
                    /\ pc' = "AddPointSourceNoiseLoop"
                    /\ UNCHANGED error
          ELSE /\ loc' = [loc EXCEPT
                             !.remaining = 0,
                             !.draws = @ \o PointSourceDraws(pointsource_noise_list, FALSE)]
               /\ pc' = "AddPointSourceNoiseLoop"
               /\ UNCHANGED error
    /\ UNCHANGED <<h, args, inputVars, catalogVars, iteratorVars, i, key_pos,
                   corrupted_wav_scp, events, out_wav_scp, output_dir, warned, other_run>>

PointSourceOutcomesOneSequence(noise, noise_rir) ==
    {[error |-> "none",
      noise_io |-> IF noise.bg_fg_type = "background"
                   THEN BackgroundNoiseIo(noise, noise_rir, loc.speech_dur)
                   ELSE ForegroundNoiseIo(noise, noise_rir),
      start_time |-> [v |-> 0, float |-> FALSE],
      snr |-> CyclicItem(background_snrs),
      kind |-> noise.bg_fg_type, noise_id |-> noise.noise_id,
      noise_rir_id |-> noise_rir.rir_id, draws |-> IterationDraws(noise),
      foreground_snrs |-> foreground_snrs,
      background_snrs |-> CyclicAdvance(background_snrs)]}

\* lines 167-178: one iteration, given the noise and the RIR picked
PointSourceOutcomes(noise, noise_rir) ==
    IF noise.bg_fg_type = "background"
    THEN {[error |-> "none",
           noise_io |-> BackgroundNoiseIo(noise, noise_rir, loc.speech_dur),
           start_time |-> [v |-> 0, float |-> FALSE],
           snr |-> CyclicItem(background_snrs),
           kind |-> "background", noise_id |-> noise.noise_id,
           noise_rir_id |-> noise_rir.rir_id, draws |-> IterationDraws(noise),
           foreground_snrs |-> foreground_snrs,
           background_snrs |-> CyclicAdvance(background_snrs)]}
    ELSE {[error |-> "none",
           noise_io |-> ForegroundNoiseIo(noise, noise_rir),
           start_time |-> [v |-> t, float |-> TRUE],
           snr |-> CyclicItem(foreground_snrs),
           kind |-> "foreground", noise_id |-> noise.noise_id,
           noise_rir_id |-> noise_rir.rir_id, draws |-> IterationDraws(noise),
           foreground_snrs |-> CyclicAdvance(foreground_snrs),
           background_snrs |-> background_snrs] :
             t \in StartTimeDraws(loc.speech_dur)}

\* the RIR of the noise picked from the whole catalog
IterationOutcomesAnyRoom ==
    LET withNoise(noise) ==
            UNION {IF k = 0 THEN {Failed}
                   ELSE PointSourceOutcomes(noise, rir_list[k]) :
                      k \in Picks(rir_list)}
    IN  UNION {IF k = 0 THEN {Failed} ELSE withNoise(pointsource_noise_list[k]) :
                  k \in Picks(pointsource_noise_list)}

IterationOutcomes ==
    LET withNoise(noise) ==
            UNION {IF k = 0 THEN {Failed}
                   ELSE PointSourceOutcomes(noise, loc.room.rir_list[k]) :
                      k \in Picks(loc.room.rir_list)}
    IN  UNION {IF k = 0 THEN {Failed} ELSE withNoise(pointsource_noise_list[k]) :
                  k \in Picks(pointsource_noise_list)}

AddPointSourceNoiseLoop ==
    /\ pc = "AddPointSourceNoiseLoop" /\ loc.remaining > 0
    /\ \E o \in IterationOutcomes :
          IF o.error # "none"
          THEN Raise(o.error) /\ UNCHANGED <<loc, iteratorVars, events>>
          ELSE /\ loc' = [loc EXCEPT
                            !.remaining = @ - 1,
                            !.draws = @ \o o.draws,
                            !.noise_addition_descriptor =
                                AppendNoise(@, o.noise_io, o.start_time, o.snr),
                            !.plan = Append(@, [kind |-> o.kind, noise_id |-> o.noise_id,
                                                linked_rir_id |-> "",
                                                noise_rir_id |-> o.noise_rir_id,
                                                start_time |-> o.start_time.v,
                                                snr |-> o.snr])]
               /\ foreground_snrs' = o.foreground_snrs
               /\ background_snrs' = o.background_snrs
               /\ events' = Append(events, [kind |-> o.kind, snr |-> o.snr])
               /\ UNCHANGED <<pc, error>>
    /\ UNCHANGED <<h, args, inputVars, catalogVars, i, key_pos, corrupted_wav_scp,
                   out_wav_scp, output_dir, warned, other_run>>

\* dict[key] = value
Store(dict, key, value) ==
    [k \in DOMAIN dict \cup {key} |-> IF k = key THEN value ELSE dict[k]]

\* lines 226-233 and 291-297: the asserts, the options of the noises, the
\* rendered pipe stored under the new id; then the next recording or replica
FinishRecording ==
    /\ pc = "AddPointSourceNoiseLoop" /\ loc.remaining = 0
    /\ LET d == loc.noise_addition_descriptor
           reverberate_opts == loc.reverberate_opts \o AdditiveOpts(d)
       IN  IF Len(d.noise_io) # Len(d.start_times) \/ Len(d.noise_io) # Len(d.snrs)
           THEN Raise("AssertionError") /\ UNCHANGED <<i, key_pos, loc, corrupted_wav_scp, other_run>>
           ELSE /\ corrupted_wav_scp' =
                       Store(corrupted_wav_scp,
                             GetNewId(loc.recording_id, args.prefix, i),
                             WavCorruptedPipe(loc.wav_original_pipe, reverberate_opts))
                /\ IF key_pos + 1 = Len(SortedKeys(wav_scp))
                   THEN i' = i + 1 /\ key_pos' = 0
                   ELSE i' = i /\ key_pos' = key_pos + 1
                /\ loc' = NoLoc
                /\ other_run' = [other_run EXCEPT !.room_id = "", !.compared = FALSE]
                /\ pc' = "loop"
                /\ UNCHANGED error
    /\ UNCHANGED <<h, args, inputVars, catalogVars, iteratorVars, events, out_wav_scp, output_dir,
                   warned>>

\* line 299
WriteDictToFile ==
    /\ pc = "loop" /\ LoopDone
    /\ out_wav_scp' = corrupted_wav_scp
    /\ pc' = "written"
    /\ UNCHANGED <<h, args, inputVars, catalogVars, iteratorVars, loopVars, output_dir,
                   warned, error, other_run>>

-----------------------------------------------------------------------------
(* CreateReverberatedCopy after GenerateReverberatedWavScp: lines 347-359 *)

afterVars == <<h, args, inputVars, catalogVars, iteratorVars, loopVars, out_wav_scp,
               warned, other_run>>

\* AddPrefixToFields(input_dir + "/" + name, output_dir + "/" + name, ...);
\* open(input_file) raises IOError for a file that does not exist
AddPrefixToFieldsStep(name, field, next) ==
    IF ~input_dir[name].given
    THEN Raise("IOError") /\ UNCHANGED output_dir
    ELSE IF AddPrefixRaises(input_dir[name].lines, args.num_replicas, field)
    THEN Raise("IndexError") /\ UNCHANGED output_dir
    ELSE /\ output_dir' = [output_dir EXCEPT ![name] =
                              AddPrefixToFields(input_dir[name].lines, args.num_replicas,
                                                args.prefix, field)]
         /\ pc' = next
         /\ UNCHANGED error

\* if os.path.isfile(...): AddPrefixToFields(...)
AddPrefixToFieldsIfFile(name, field, next) ==
    IF input_dir[name].given
    THEN AddPrefixToFieldsStep(name, field, next)
    ELSE pc' = next /\ UNCHANGED <<output_dir, error>>

\* line 347 (utils/utt2spk_to_spk2utt.pl, lines 348-349, runs outside the program)
ReplicateUtt2spk ==
    /\ pc = "written"
    /\ AddPrefixToFieldsStep("utt2spk", {1, 2}, "text")
    /\ UNCHANGED afterVars

\* lines 351-352
ReplicateText ==
    /\ pc = "text"
    /\ AddPrefixToFieldsIfFile("text", {1}, "segments")
    /\ UNCHANGED afterVars

\* lines 353-354
ReplicateSegments ==
    /\ pc = "segments"
    /\ AddPrefixToFieldsIfFile("segments", {1, 2}, "reco2file_and_channel")
    /\ UNCHANGED afterVars

\* lines 355-356 (utils/validate_data_dir.sh, lines 358-359, runs outside the program)
ReplicateReco2fileAndChannel ==
    /\ pc = "reco2file_and_channel"
    /\ AddPrefixToFieldsIfFile("reco2file_and_channel", {1, 2}, "done")
    /\ UNCHANGED afterVars

Next ==
    \/ CheckArgs
    \/ ParseRirList
    \/ ParseNoiseList
    \/ MakeRoomDictStep
    \/ CreateReverberatedCopy
    \/ GenerateReverberationOpts
    \/ AddPointSourceNoise
    \/ AddPointSourceNoiseLoop
    \/ FinishRecording
    \/ WriteDictToFile
    \/ ReplicateUtt2spk
    \/ ReplicateText
    \/ ReplicateSegments
    \/ ReplicateReco2fileAndChannel

Spec == Init /\ [][Next]_vars

-----------------------------------------------------------------------------
(* Properties *)

PointSourceEvents(plan) == {k \in 1..Len(plan) : plan[k].kind # "isotropic"}
IsotropicEvents(plan) == {k \in 1..Len(plan) : plan[k].kind = "isotropic"}

\* C1, as claimed: a recording whose max_noises_recording is 0 is planned without
\* an error and without a point-source noise, whatever the point-source
\* probability (random.randint is reached only with max_noises_recording >= 1)
C1_ShortRecordingPlannedWithoutPointSource ==
    (loc # NoLoc /\ loc.max_noises_recording = 0) =>
        /\ error = "none"
        /\ PointSourceEvents(loc.plan) = {}

AllProbabilitiesZero ==
    /\ args.speech_rvb_probability = Zero
    /\ args.isotropic_noise_addition_probability = Zero
    /\ args.pointsource_noise_addition_probability = Zero

\* what is stored for recording id in replica copy, if anything is yet
Stored(id, copy) ==
    LET key == IF args.prefix = NoPrefix THEN id
               ELSE args.prefix[1] \o ToString(copy) \o "_" \o id
    IN  IF key \in DOMAIN corrupted_wav_scp THEN <<corrupted_wav_scp[key]>> ELSE <<>>

\* C2, as claimed: with the three probabilities 0 every stored value is the
\* recording's signal reference unchanged, a pipe or a bare file alike
C2_ZeroProbabilitiesKeepReference ==
    (h.fn = "main" /\ AllProbabilitiesZero) =>
        \A id \in DOMAIN wav_scp : \A copy \in 0..(args.num_replicas - 1) :
            Stored(id, copy) \in {<<>>, <<SignalReference(wav_scp[id])>>}

\* C2, amended: with the three probabilities 0 every stored value is the
\* recording's signal reference unchanged when it has several tokens, and
\* "cat <reference> |" when it is a single token
C2_ZeroProbabilitiesKeepPipe ==
    (h.fn = "main" /\ AllProbabilitiesZero) =>
        \A id \in DOMAIN wav_scp : \A copy \in 0..(args.num_replicas - 1) :
            Stored(id, copy) \in
                {<<>>,
                 IF Len(wav_scp[id]) = 1
                 THEN <<"cat " \o JoinWith(wav_scp[id], " ") \o " |">>
                 ELSE <<JoinWith(wav_scp[id], " ")>>}

C2_Witness ==
    /\ pc = "written" /\ AllProbabilitiesZero
    /\ args.num_replicas = 2
    /\ \E a, b \in DOMAIN wav_scp : Len(wav_scp[a]) = 1 /\ Len(wav_scp[b]) > 1
    /\ Cardinality(DOMAIN out_wav_scp) = 2 * Cardinality(DOMAIN wav_scp)

\* C3, as claimed: a second process with the same seed, catalogs and
\* configuration selects the same room on every selection
C3_SameRoomInBothRuns ==
    other_run.compared => other_run.room_id = loc.room.room_id

NonNegativeWeights(plist) == \A k \in 1..Len(plist) : plist[k].probability.n >= 0

C5_CyclicPeriod ==
    h.fn = "cyclic" =>
        LET L == Len(h.array)
        IN  \A k \in 1..Len(h.log) :
               /\ k + L <= Len(h.log) => h.log[k + L] = h.log[k]
               /\ k + L - 1 <= Len(h.log) =>
                     {h.log[j] : j \in k..(k + L - 1)} = {h.array[j] : j \in 1..L}

C5_Witness ==
    /\ h.fn = "cyclic" /\ Len(h.array) = 3
    /\ Len(h.log) > 2 * Len(h.array)
    /\ h.it.list # h.array

\* the keys the claim expects for the prefix P
ExpectedKeys(P) ==
    {P \o ToString(copy) \o "_" \o id :
        copy \in 0..(args.num_replicas - 1), id \in DOMAIN wav_scp}

C6_Keys ==
    pc = "written" =>
        /\ args.num_replicas > 1 => args.prefix # NoPrefix
        /\ warned # <<>> => args.prefix = <<"rvb">>
        /\ IF args.prefix = NoPrefix
           THEN DOMAIN out_wav_scp = DOMAIN wav_scp
           ELSE /\ DOMAIN out_wav_scp = ExpectedKeys(args.prefix[1])
                /\ Cardinality(DOMAIN out_wav_scp) =
                      args.num_replicas * Cardinality(DOMAIN wav_scp)

C6_CheckArgs ==
    pc = "CheckArgs" =>
        /\ (args.prefix = NoPrefix /\ args.num_replicas > 1) =>
              (args'.prefix = <<"rvb">> /\ Len(warned') = 1 /\ pc' = "ParseRirList")
        /\ (args.prefix # NoPrefix \/ args.num_replicas = 1) =>
              (args'.prefix = args.prefix /\ warned' = <<>>)

\* C6: the written mapping has one entry per replica and recording, under
\* P + str(i) + "_" + id when a prefix P is given, or when none is given with
\* more than one replica and CheckArgs sets P = "rvb" and warns instead of
\* failing; without a prefix and with one replica the keys are the ids
C6_OutputKeys == []C6_Keys /\ [][C6_CheckArgs]_vars

C6_Witness ==
    /\ pc = "written" /\ args.num_replicas = 2 /\ warned # <<>>
    /\ Cardinality(DOMAIN wav_scp) = 3
    /\ "rvb1_0_a" \in DOMAIN out_wav_scp

\* C7: a plan holds at most one isotropic noise, and only one linked to the
\* speech RIR selected for the recording, applied to the speech or not
C7_IsotropicIsolation ==
    loc # NoLoc =>
        /\ Cardinality(IsotropicEvents(loc.plan)) <= 1
        /\ \A k \in IsotropicEvents(loc.plan) :
              loc.plan[k].linked_rir_id = loc.speech_rir.rir_id

C7_Witness ==
    /\ loc # NoLoc /\ loc.reverberate_opts = ""
    /\ IsotropicEvents(loc.plan) = {1}
    /\ Len(loc.room.rir_list) = 2
    /\ \E k \in 1..Len(iso_noise_list) : iso_noise_list[k].rir_id = loc.speech_rir.rir_id

BackgroundKinds == {"isotropic", "background"}
ForegroundKinds == {"foreground"}

\* how many of the first k events of the run are of the kinds
EventCount(k, kinds) == Cardinality({j \in 1..k : events[j].kind \in kinds})

\* C8: each iterator is built once per run and its cursor is the number of
\* events of its kind so far, modulo its length; the k-th event of a kind gets
\* value k mod length of that kind's permutation
C8_CursorsCountEvents ==
    (pc \in {"loop", "AddPointSourceNoise", "AddPointSourceNoiseLoop", "written"}) =>
        /\ background_snrs.list_index =
              EventCount(Len(events), BackgroundKinds) % Len(background_snrs.list)
        /\ foreground_snrs.list_index =
              EventCount(Len(events), ForegroundKinds) % Len(foreground_snrs.list)
        /\ \A k \in 1..Len(events) :
              IF events[k].kind \in BackgroundKinds
              THEN events[k].snr =
                      background_snrs.list[((EventCount(k, BackgroundKinds) - 1)
                                               % Len(background_snrs.list)) + 1]
              ELSE events[k].snr =
                      foreground_snrs.list[((EventCount(k, ForegroundKinds) - 1)
                                               % Len(foreground_snrs.list)) + 1]

C8_Witness ==
    /\ pc = "written" /\ args.num_replicas = 2
    /\ EventCount(Len(events), BackgroundKinds) > Len(background_snrs.list)
    /\ EventCount(Len(events), ForegroundKinds) > Len(foreground_snrs.list)
    /\ Len(foreground_snrs.list) = 2
    /\ foreground_snrs.list_index = 1

SmoothResultIsDistribution ==
    /\ h.st = "ret"
    /\ Len(h.out) = Len(h.in)
    /\ \A k \in 1..Len(h.out) :
          /\ h.out[k].probability # None
          /\ h.out[k].probability.d > 0
          /\ h.out[k].probability.n >= 0
          /\ h.out[k].id = h.in[k].id
    /\ SumProbability(h.out) = One

\* C9, as claimed: on a non-empty catalog whose raw weights are absent or any
\* number, every weight ends populated and non-negative and they sum to 1
C9_AnyRawWeight ==
    (h.fn = "smooth" /\ h.st # "call" /\ Len(h.in) > 0) => SmoothResultIsDistribution

\* C9, amended: on a non-empty catalog whose raw weights are absent or
\* non-negative, every weight ends populated and non-negative and they sum to 1
C9_NonNegativeRawWeight ==
    (h.fn = "smooth" /\ h.st # "call" /\ Len(h.in) > 0
        /\ \A k \in 1..Len(h.in) : h.in[k].probability.n >= 0) =>
            SmoothResultIsDistribution

C9_Witness ==
    /\ h.fn = "smooth" /\ h.st = "ret" /\ Len(h.in) = 3
    /\ h.in[1].probability = None
    /\ h.in[2].probability = One
    /\ h.in[3].probability = Zero
    /\ h.out[2].probability = Rat(24, 37)

EmptyCatalog ==
    \/ Len(rir_file) = 0
    \/ /\ noise_file.given
       /\ \/ Len(PointSourceLines(noise_file.lines)) = 0
          \/ Len(IsotropicLines(noise_file.lines)) = 0

\* C10: a run whose RIR list, point-source list or isotropic list is empty ends
\* in an error while the catalogs are loaded (the ZeroDivisionError of
\* SmoothProbabilityDistribution on the empty list, unless a noise line already
\* failed), with no recording planned and nothing written
C10_EmptyCatalogAborts ==
    (h.fn = "main" /\ EmptyCatalog) =>
        /\ pc \in {"CheckArgs", "ParseRirList", "ParseNoiseList", "aborted"}
        /\ pc = "aborted" =>
              \/ error = "ZeroDivisionError"
              \/ error = "Exception" /\ Len(rir_file) > 0
                    /\ NoiseListRaises(noise_file.lines)
        /\ loc = NoLoc /\ events = <<>>
        /\ corrupted_wav_scp = <<>> /\ out_wav_scp = NotWritten

C10_Witness ==
    /\ pc = "aborted" /\ error = "ZeroDivisionError"
    /\ Len(rir_file) > 0 /\ noise_file.given
    /\ Len(PointSourceLines(noise_file.lines)) > 0
    /\ Len(IsotropicLines(noise_file.lines)) = 0


\* the rooms whose rir_list holds the RIR
RoomsHolding(rir) ==
    {r \in DOMAIN room_dict :
        \E j \in 1..Len(room_dict[r].rir_list) : room_dict[r].rir_list[j] = rir}

RoomDictBuilt == pc \notin {"CheckArgs", "ParseRirList", "ParseNoiseList", "MakeRoomDict"}
                    /\ DOMAIN room_dict # {}

\* C11: once MakeRoomDict has run, every RIR of the catalog is in the rir_list
\* of exactly one room, the one keyed by its room_id; every room holds exactly
\* the RIRs of its room_id, at least one; a room's weight is the sum of its
\* members' weights; and the room weights sum to what the RIR weights sum to,
\* which is 1
C11_RoomsPartitionCatalog ==
    RoomDictBuilt =>
        /\ \A k \in 1..Len(rir_list) : RoomsHolding(rir_list[k]) = {rir_list[k].room_id}
        /\ \A r \in DOMAIN room_dict :
              /\ Len(room_dict[r].rir_list) > 0
              /\ Len(room_dict[r].rir_list) =
                    Cardinality({k \in 1..Len(rir_list) : rir_list[k].room_id = r})
              /\ room_dict[r].probability = SumProbability(room_dict[r].rir_list)
        /\ SumProbability(PlistOfDict(room_dict, set_order)) = SumProbability(rir_list)
        /\ SumProbability(rir_list) = One

\* two rooms, one of them with two RIRs (weights 2/3 and 1/3)
C11_Witness ==
    /\ RoomDictBuilt
    /\ Cardinality(DOMAIN room_dict) = 2
    /\ \E r \in DOMAIN room_dict :
          /\ Len(room_dict[r].rir_list) = 2
          /\ room_dict[r].probability = Rat(2, 3)


RECURSIVE EventDraws(_)
\* what the point-source events of a plan, in plan order, draw
EventDraws(plan) ==
    IF plan = <<>> THEN <<>>
    ELSE (IF plan[1].kind = "isotropic" THEN <<>>
          ELSE IF plan[1].kind = "background" THEN <<"noise", "noise_rir">>
          ELSE <<"noise", "noise_rir", "start_time">>) \o EventDraws(Tail(plan))

\* C12: the draws made for a recording are, in this order: the room, the speech
\* RIR, the reverberation draw; the isotropic draw only if the isotropic list
\* filtered by the speech RIR's id is non-empty, and the isotropic selection
\* only if an isotropic event was added; once AddPointSourceNoise has been
\* entered, the point-source draw only if the point-source list is non-empty
\* and the count draw only if iterations follow; then per point-source event a
\* noise selection, a RIR selection and, for a foreground event, a start time
C12_DrawOrder ==
    (pc \in {"AddPointSourceNoise", "AddPointSourceNoiseLoop"}) =>
        LET filtered == {k \in 1..Len(iso_noise_list) :
                            iso_noise_list[k].rir_id = loc.speech_rir.rir_id}
            isotropic == IF filtered = {} THEN <<>>
                         ELSE IF IsotropicEvents(loc.plan) # {}
                         THEN <<"isotropic_add", "isotropic_noise">>
                         ELSE <<"isotropic_add">>
            pointsource ==
                IF pc = "AddPointSourceNoise" \/ Len(pointsource_noise_list) = 0 THEN <<>>
                ELSE IF loc.remaining + Cardinality(PointSourceEvents(loc.plan)) > 0
                THEN <<"pointsource_add", "count">>
                ELSE <<"pointsource_add">>
        IN  loc.draws = <<"room", "speech_rir", "speech_rvb">> \o isotropic
                            \o pointsource \o EventDraws(loc.plan)

\* a plan of a 60 s recording: no isotropic draw (the speech RIR has no
\* isotropic noise), then a background and a foreground point-source noise
C12_Witness ==
    /\ pc = "AddPointSourceNoiseLoop" /\ loc.remaining = 0
    /\ loc.draws = <<"room", "speech_rir", "speech_rvb", "pointsource_add", "count",
                     "noise", "noise_rir", "noise", "noise_rir", "start_time">>


\* the positions AddPrefixToFields renames in each file, counted from 1
RenamedFields ==
    [name \in FileNames |-> IF name = "text" THEN {1} ELSE {1, 2}]

\* the file `name` of output_dir holds, for every replica index c and every
\* line k of the input file, line c * (number of lines) + k: the input line
\* with GetNewId(_, prefix, c) applied to its identifier fields, or the input
\* line itself if it is empty or a comment
Replicated(name) ==
    LET in == input_dir[name].lines
        out == output_dir[name]
    IN  /\ out # NotWritten
        /\ Len(out) = args.num_replicas * Len(in)
        /\ \A c \in 0..(args.num_replicas - 1) : \A k \in 1..Len(in) :
              out[c * Len(in) + k] =
                  IF in[k].tokens = <<>> \/ in[k].comment THEN in[k].raw
                  ELSE JoinWith([j \in 1..Len(in[k].tokens) |->
                                    IF j \in RenamedFields[name]
                                    THEN GetNewId(in[k].tokens[j], args.prefix, c)
                                    ELSE in[k].tokens[j]], " ")

\* C13, as claimed: no run ends on opening a missing file of utt2spk, text and
\* segments (IOError), and at the end each of them that exists is replicated
\* and each that is missing is not written
C13_MissingCompanionSkipped ==
    /\ error # "IOError"
    /\ pc = "done" =>
          \A name \in {"utt2spk", "text", "segments"} :
              IF input_dir[name].given THEN Replicated(name)
              ELSE output_dir[name] = NotWritten

\* C13, amended: utt2spk is replicated unconditionally, and a run without it
\* ends with IOError after wav.scp was written and before any other file is;
\* text, segments and reco2file_and_channel are replicated if they exist and
\* skipped if not; a run that has utt2spk reaches the end without an error
C13_Utt2spkRequired ==
    /\ error = "IOError" =>
          /\ ~input_dir["utt2spk"].given
          /\ out_wav_scp = corrupted_wav_scp
          /\ \A name \in FileNames : output_dir[name] = NotWritten
    /\ (pc = "aborted" /\ error # "IOError") =>
          \A name \in FileNames : output_dir[name] = NotWritten
    /\ (pc \in {"text", "segments", "reco2file_and_channel", "done"}) =>
          Replicated("utt2spk")
    /\ pc = "done" =>
          /\ error = "none"
          /\ \A name \in FileNames :
                IF input_dir[name].given THEN Replicated(name)
                ELSE output_dir[name] = NotWritten

\* two replicas without --prefix, text missing, segments present
C13_Witness ==
    /\ pc = "done" /\ args.num_replicas = 2
    /\ ~input_dir["text"].given /\ output_dir["text"] = NotWritten
    /\ output_dir["utt2spk"] = <<"rvb0_u1 rvb0_s1", "rvb0_u2 rvb0_s1",
                                 "rvb1_u1 rvb1_s1", "rvb1_u2 rvb1_s1">>
    /\ output_dir["segments"] = <<";;utt", "rvb0_u1 rvb0_a 0 5", "rvb0_u2 rvb0_a 5 9",
                                  ";;utt", "rvb1_u1 rvb1_a 0 5", "rvb1_u2 rvb1_a 5 9">>


\* the noise and the RIR an event names
NoiseOf(noise_id) ==
    LET all == pointsource_noise_list \o iso_noise_list
    IN  all[CHOOSE k \in 1..Len(all) : all[k].noise_id = noise_id]

RirOf(rir_id) == rir_list[CHOOSE k \in 1..Len(rir_list) : rir_list[k].rir_id = rir_id]

\* the entries of noise_io and start_times that describe an event
EventNoiseIo(e, speech_dur) ==
    CASE e.kind = "isotropic" -> IsotropicNoiseIo(NoiseOf(e.noise_id), speech_dur)
      [] e.kind = "background" ->
            BackgroundNoiseIo(NoiseOf(e.noise_id), RirOf(e.noise_rir_id), speech_dur)
      [] e.kind = "foreground" ->
            ForegroundNoiseIo(NoiseOf(e.noise_id), RirOf(e.noise_rir_id))

EventStartTime(e) ==
    IF e.kind = "foreground" THEN HundredthsStr(e.start_time) ELSE "0"

\* in every state of planning the three lists are as long as the plan, entry
\* j of each describes event j of the plan, an isotropic event is the first,
\* an isotropic or background event starts at the int 0 and a foreground
\* event within the recording
C14_Lists ==
    (pc \in {"AddPointSourceNoise", "AddPointSourceNoiseLoop"}) =>
        LET d == loc.noise_addition_descriptor
            plan == loc.plan
        IN  /\ Len(d.noise_io) = Len(plan)
            /\ Len(d.start_times) = Len(plan)
            /\ Len(d.snrs) = Len(plan)
            /\ \A j \in 1..Len(plan) :
                  /\ d.noise_io[j] = EventNoiseIo(plan[j], loc.speech_dur)
                  /\ d.start_times[j].v = plan[j].start_time
                  /\ d.snrs[j] = plan[j].snr
                  /\ plan[j].kind = "isotropic" => j = 1
                  /\ IF plan[j].kind = "foreground"
                     THEN /\ d.start_times[j].float
                          /\ 0 <= d.start_times[j].v
                          /\ d.start_times[j].v <= 100 * loc.speech_dur
                     ELSE d.start_times[j] = [v |-> 0, float |-> FALSE]

\* the step that renders a plan stores the original pipe alone, or followed by
\* the impulse response only, if the plan has no event; else the command with
\* the three lists, entry j of each taken from event j of the plan
C14_Rendered ==
    (pc = "AddPointSourceNoiseLoop" /\ pc' = "loop") =>
        LET plan == loc.plan
            lists ==
                "--additive-signals='" \o
                    JoinWith([j \in 1..Len(plan) |-> EventNoiseIo(plan[j], loc.speech_dur)], ",")
                \o "' --start-times='" \o
                    JoinWith([j \in 1..Len(plan) |-> EventStartTime(plan[j])], ",")
                \o "' --snrs='" \o
                    JoinWith([j \in 1..Len(plan) |-> FloatStr(plan[j].snr)], ",")
                \o "' "
            stored == corrupted_wav_scp'[GetNewId(loc.recording_id, args.prefix, i)]
        IN  IF Len(plan) = 0
            THEN stored \in {loc.wav_original_pipe,
                             loc.wav_original_pipe \o " wav-reverberate "
                                \o ImpulseResponseOpt(loc.speech_rir) \o " - - |"}
            ELSE stored \in {loc.wav_original_pipe \o " wav-reverberate " \o lists \o " - - |",
                             loc.wav_original_pipe \o " wav-reverberate "
                                \o ImpulseResponseOpt(loc.speech_rir) \o lists \o " - - |"}

C15_PointSourceCount ==
    (pc = "AddPointSourceNoiseLoop" /\ loc.max_noises_recording >= 1) =>
        LET n == Cardinality(PointSourceEvents(loc.plan))
        IN  /\ n + loc.remaining <= loc.max_noises_recording
            /\ Len(pointsource_noise_list) = 0 => n + loc.remaining = 0
            /\ loc.remaining = 0 => (n = 0 \/ (1 <= n /\ n <= loc.max_noises_recording))
            /\ \A j \in PointSourceEvents(loc.plan) :
                  /\ \E k \in 1..Len(loc.room.rir_list) :
                        loc.room.rir_list[k].rir_id = loc.plan[j].noise_rir_id
                  /\ RirOf(loc.plan[j].noise_rir_id).room_id = loc.room.room_id

\* a 60 s recording (max_noises_recording = 2) with two rooms: room B selected
\* and two point-source events, both with B's RIR
C15_Witness ==
    /\ pc = "AddPointSourceNoiseLoop" /\ loc.remaining = 0
    /\ loc.max_noises_recording = 2
    /\ Cardinality(DOMAIN room_dict) = 2
    /\ loc.room.room_id = "B"
    /\ Len(loc.plan) = 2
    /\ \A j \in 1..2 : loc.plan[j].kind # "isotropic" /\ loc.plan[j].noise_rir_id = "r2"

====
